---- MODULE Spec2Model ----
(***************************************************************************)
(* Model of devnet/scripts/test_flashblock_reorg.py: the BlockTracker      *)
(* aggregate, flashblock ingestion (process_flashblock_payload), canonical *)
(* ingestion (check_canonical_block), finalization (_finalize_old_blocks)  *)
(* and the reconciler loop (poll_canonical_blocks); and the tasks of run(): *)
(* the stream subscribers (subscribe_flashblocks_single), the reconciler,  *)
(* the duration limit, the running flag and the final summary.             *)
(*                                                                         *)
(* Every action is one whole, non-suspending handler run: asyncio tasks    *)
(* only yield at awaits, and the tracker handlers contain none.  The RPC   *)
(* calls made inside a handler are synchronous (urlopen), so the nested    *)
(* check_canonical_block / _finalize_old_blocks re-entrance is part of the *)
(* same action.                                                            *)
(***************************************************************************)
EXTENDS Integers, Sequences, FiniteSets, TLC

VARIABLES
    transactions,               \* BlockTracker.transactions: tx_hash -> TrackedTransaction
    txs_by_block,               \* BlockTracker.txs_by_block: insertion-ordered dict, as a sequence of [bn, txs]
    canonical_blocks,           \* BlockTracker.canonical_blocks: block_number -> set of hashes
    latest_canonical_block,     \* BlockTracker.latest_canonical_block
    total_flashblocks_received, \* BlockTracker.total_flashblocks_received
    total_txs_tracked,          \* BlockTracker.total_txs_tracked
    total_confirmed,            \* BlockTracker.total_confirmed
    total_missing,              \* BlockTracker.total_missing
    total_reorg_count,          \* BlockTracker.total_reorg_count
    reconnection_count,         \* BlockTracker.reconnection_count
    current_parent_hash,        \* FlashblockReorgTester.current_parent_hash
    current_block_number,       \* FlashblockReorgTester.current_block_number
    current_payload_id,         \* FlashblockReorgTester.current_payload_id
    last_block,                 \* local of poll_canonical_blocks
    decode_error_logged,        \* module global _decode_error_logged
    rpc_failed,                 \* block numbers for which a get_block_from_rpc(hex(bn)) of the last handler run returned None
    running,                    \* FlashblockReorgTester.running
    subscriber,                 \* per stream: where subscribe_flashblocks_single is, its reconnect_delay, its waits since the last connection
    poller,                     \* where poll_canonical_blocks is
    duration_limit,             \* where the duration_limit task of run() is
    summary,                    \* the summaries print_summary printed, in order
    connection_failures         \* number of stream connection failures so far

vars == <<transactions, txs_by_block, canonical_blocks, latest_canonical_block,
          total_flashblocks_received, total_txs_tracked, total_confirmed,
          total_missing, total_reorg_count, reconnection_count,
          current_parent_hash, current_block_number, current_payload_id,
          last_block, decode_error_logged, rpc_failed,
          running, subscriber, poller, duration_limit, summary,
          connection_failures>>

\* The variables of the tasks of run()
task_vars == <<running, subscriber, poller, duration_limit, summary,
               connection_failures>>

----------------------------------------------------------------------------
(* Bounds of the model.                                                     *)

\* Block numbers on the chain and in the feed are 1..MaxBlock.
MaxBlock == 4
\* Distinct transactions (raw bodies, hence hashes) are 1..MaxHash.
MaxHash == 2
\* At most MaxFlashblocks payloads are ingested in a run.
MaxFlashblocks == 3

Blocks == 1..MaxBlock
\* The feed announces pending blocks 1..MaxBlock-1; a transaction expected at
\* MaxBlock-1 stays below the finalization threshold for the whole run.
FeedBlocks == 1..(MaxBlock - 1)
Hashes == 1..MaxHash

\* Python's None, for the string-valued and for the integer-valued fields.
None == "None"
NoneInt == -1

\* BlockTracker.blocks_to_confirm_after
blocks_to_confirm_after == 2

\* TxStatus
PENDING == "pending"
CONFIRMED == "confirmed"
MISSING == "missing"

----------------------------------------------------------------------------
(* Hex strings: a sequence of hex digit values, most significant first.     *)

RECURSIVE IntOfHex(_)
\* int(s, 16)
IntOfHex(s) ==
    IF s = <<>> THEN 0 ELSE 16 * IntOfHex(SubSeq(s, 1, Len(s) - 1)) + s[Len(s)]

RECURSIVE Hex(_)
\* hex(n), n >= 0
Hex(n) ==
    IF n < 16 THEN <<n>> ELSE Append(Hex(n \div 16), n % 16)

----------------------------------------------------------------------------
(* decode_tx_hash.  A raw transaction is a hex string with or without the   *)
(* "0x" prefix; BadHex stands for a body bytes.fromhex rejects, NotStr for  *)
(* a list entry that is no string (a JSON null, number or object).          *)

BadHex == 0
NotStr == -2
RawTxs == [prefixed : BOOLEAN, body : Hashes \cup {BadHex, NotStr}]

\* decode_tx_hash raised instead of returning
Raises == -3

\* keccak256 is a collision-free pure function of the bytes: the digest of
\* body b is named b.
keccak256(body) == body

\* decode_tx_hash(raw_tx_hex): strips the prefix, hashes the bytes; None
\* (NoneInt) when the body is not hex.  For an entry that is no string,
\* startswith raises; the except clause returns None when a decode error
\* was logged before (logged) and otherwise slices the entry for the
\* warning, which raises again, out of the function.
decode_tx_hash(raw, logged) ==
    IF raw.body = NotStr THEN (IF logged THEN NoneInt ELSE Raises)
    ELSE IF raw.body = BadHex THEN NoneInt
    ELSE keccak256(raw.body)

----------------------------------------------------------------------------
(* The insertion-ordered dict txs_by_block.                                 *)

DictKeys(d) == [i \in 1..Len(d) |-> d[i].bn]
DictKeySet(d) == {d[i].bn : i \in 1..Len(d)}
DictGet(d, k) ==
    IF k \in DictKeySet(d)
    THEN (CHOOSE e \in {d[i] : i \in 1..Len(d)} : e.bn = k).txs
    ELSE {}
\* d[k].add(h), creating d[k] = set() at the end of the dict when k is new
DictAdd(d, k, h) ==
    IF k \in DictKeySet(d)
    THEN [i \in 1..Len(d) |-> IF d[i].bn = k THEN [d[i] EXCEPT !.txs = @ \cup {h}] ELSE d[i]]
    ELSE Append(d, [bn |-> k, txs |-> {h}])
\* del d[k]
DictDel(d, k) == SelectSeq(d, LAMBDA e : e.bn # k)

\* A dict d with d[k] = v (insert or overwrite)
MapPut(m, k, v) == [x \in DOMAIN m \cup {k} |-> IF x = k THEN v ELSE m[x]]

----------------------------------------------------------------------------
(* Flashblock payloads, as json.loads hands them to the handler.            *)

Streams == {"ws://localhost:11111", "ws://localhost:11112"}

\* Each feed endpoint (builder) issues its own payload identifiers.
PayloadIdOf(source_url) ==
    IF source_url = "ws://localhost:11111" THEN "pidA" ELSE "pidB"

\* ... and builds on its own parent block.
ParentHashOf(source_url) ==
    IF source_url = "ws://localhost:11111" THEN "0xaa" ELSE "0xbb"

\* payload.get("base", {}): present is FALSE for a missing or empty base
NoBase == [present |-> FALSE, parent_hash |-> None, block_number |-> <<0>>]
Bases(source_url) ==
    [present : {TRUE}, parent_hash : {ParentHashOf(source_url)},
     block_number : {Hex(b) : b \in FeedBlocks}]

Raw(h) == [prefixed |-> TRUE, body |-> h]
RawNoPrefix(h) == [prefixed |-> FALSE, body |-> h]
RawBad == [prefixed |-> TRUE, body |-> BadHex]
RawNotStr == [prefixed |-> FALSE, body |-> NotStr]

\* diff.transactions of an index > 0 payload: empty, one transaction, two
\* (equal or different bodies, the second without the 0x prefix), and an
\* undecodable entry (a string that is not hex, an entry that is no string)
\* before or after a transaction
TxLists ==
    {<<>>}
    \cup {<<Raw(a)>> : a \in Hashes}
    \cup {<<Raw(a), RawNoPrefix(b)>> : a \in Hashes, b \in Hashes}
    \cup {<<RawBad, Raw(a)>> : a \in Hashes}
    \cup {<<RawNotStr, Raw(a)>> : a \in Hashes}
    \cup {<<Raw(a), RawBad>> : a \in Hashes}

\* diff.transactions of an index-0 payload: the sequencer's transactions,
\* here one of every body
SequencerTxLists == {[i \in 1..MaxHash |-> Raw(i)]}

\* diff.transactions of a payload with a metadata block number
SingleTxLists == {<<Raw(a)>> : a \in Hashes}

\* Payloads with index 0 (payload.get("index", 0): also those without an
\* index field): with a base section, or without one and with any metadata.
\* metadata_block_number 0 stands for every falsy metadata.get("block_number").
IndexZeroPayloads(source_url) ==
    [payload_id : {PayloadIdOf(source_url)}, index : {0}, base : Bases(source_url),
     transactions : SequencerTxLists, metadata_block_number : {0}]
    \cup
    [payload_id : {PayloadIdOf(source_url)}, index : {0}, base : {NoBase},
     transactions : SequencerTxLists, metadata_block_number : {0} \cup FeedBlocks]

\* Payloads with index > 0: no base section
Indexes == {1, 2}
IndexPosPayloads(source_url) ==
    [payload_id : {PayloadIdOf(source_url)}, index : Indexes, base : {NoBase},
     transactions : TxLists, metadata_block_number : {0}]
    \cup
    [payload_id : {PayloadIdOf(source_url)}, index : Indexes, base : {NoBase},
     transactions : SingleTxLists, metadata_block_number : FeedBlocks]

Payloads(source_url) == IndexZeroPayloads(source_url) \cup IndexPosPayloads(source_url)

\* TrackedTransaction(tx_hash, parent_hash, flashblock_index, block_number), status PENDING
TrackedTransaction(parent_hash, index, block_number) ==
    [parent_hash |-> parent_hash, flashblock_index |-> index,
     block_number |-> block_number, status |-> PENDING]

RECURSIVE TrackTxsOverwrite(_, _, _, _, _)
\* TrackTxs without the "tx_hash not in self.tracker.transactions" test: a
\* hash seen again is tracked again, as a new pending transaction
TrackTxsOverwrite(st, raw_transactions, parent_hash, index, block_number) ==
    IF raw_transactions = <<>> THEN st
    ELSE LET tx_hash == decode_tx_hash(Head(raw_transactions), st.decode_error_logged)
             next ==
                 IF tx_hash = NoneInt THEN [st EXCEPT !.decode_error_logged = TRUE]
                 ELSE [st EXCEPT
                         !.transactions =
                             MapPut(@, tx_hash,
                                    TrackedTransaction(parent_hash, index, block_number)),
                         !.txs_by_block = DictAdd(@, block_number, tx_hash),
                         !.total_txs_tracked =
                             IF tx_hash \in DOMAIN st.transactions THEN @ ELSE @ + 1]
         IN IF tx_hash = Raises THEN st
            ELSE TrackTxsOverwrite(next, Tail(raw_transactions), parent_hash, index, block_number)

RECURSIVE TrackTxsDoubleCount(_, _, _, _, _)
\* TrackTxs counting every decodable transaction of a payload in
\* total_txs_tracked, also one that is tracked already
TrackTxsDoubleCount(st, raw_transactions, parent_hash, index, block_number) ==
    IF raw_transactions = <<>> THEN st
    ELSE LET tx_hash == decode_tx_hash(Head(raw_transactions), st.decode_error_logged)
             next ==
                 IF tx_hash = NoneInt THEN [st EXCEPT !.decode_error_logged = TRUE]
                 ELSE IF tx_hash \in DOMAIN st.transactions
                 THEN [st EXCEPT !.total_txs_tracked = @ + 1]
                 ELSE [st EXCEPT
                         !.transactions =
                             MapPut(@, tx_hash,
                                    TrackedTransaction(parent_hash, index, block_number)),
                         !.txs_by_block = DictAdd(@, block_number, tx_hash),
                         !.total_txs_tracked = @ + 1]
         IN IF tx_hash = Raises THEN st
            ELSE TrackTxsDoubleCount(next, Tail(raw_transactions), parent_hash, index, block_number)

RECURSIVE TrackTxs(_, _, _, _, _)
\* process_flashblock_payload, the loop over raw_transactions
TrackTxs(st, raw_transactions, parent_hash, index, block_number) ==
    IF raw_transactions = <<>> THEN st
    ELSE LET tx_hash == decode_tx_hash(Head(raw_transactions), st.decode_error_logged)
             next ==
                 IF tx_hash = NoneInt THEN [st EXCEPT !.decode_error_logged = TRUE]
                 ELSE IF tx_hash \in DOMAIN st.transactions THEN st
                 ELSE [st EXCEPT
                         !.transactions =
                             MapPut(@, tx_hash,
                                    TrackedTransaction(parent_hash, index, block_number)),
                         !.txs_by_block = DictAdd(@, block_number, tx_hash),
                         !.total_txs_tracked = @ + 1]
         IN IF tx_hash = Raises THEN st
            ELSE TrackTxs(next, Tail(raw_transactions), parent_hash, index, block_number)

\* The context update keyed by payload id: a base section of another payload
\* id than the current one does not replace an established context
ContextAfterBase_FirstWriteWins(st, payload) ==
    IF /\ payload.index = 0
       /\ payload.base.present
       /\ st.current_payload_id \in {None, payload.payload_id}
    THEN [st EXCEPT
            !.current_parent_hash = payload.base.parent_hash,
            !.current_block_number = IntOfHex(payload.base.block_number),
            !.current_payload_id = payload.payload_id]
    ELSE st

\* process_flashblock_payload, the context update of an index-0 payload with base
ContextAfterBase(st, payload) ==
    IF payload.index = 0 /\ payload.base.present
    THEN [st EXCEPT
            !.current_parent_hash = payload.base.parent_hash,
            !.current_block_number = IntOfHex(payload.base.block_number),
            !.current_payload_id = payload.payload_id]
    ELSE st

\* process_flashblock_payload without the metadata override
ContextAfterMetadata_Ignored(st, payload) ==
    st

\* process_flashblock_payload, the metadata override of the context's block number
ContextAfterMetadata(st, payload) ==
    IF payload.metadata_block_number # 0
    THEN [st EXCEPT !.current_block_number = payload.metadata_block_number]
    ELSE st

\* process_flashblock_payload without the "if index == 0: return"
process_flashblock_payload_TrackIndexZero(st, payload, source_url) ==
    LET received == [st EXCEPT !.total_flashblocks_received = @ + 1]
        ctx == ContextAfterMetadata(ContextAfterBase(received, payload), payload)
    IN IF ctx.current_block_number = NoneInt \/ ctx.current_parent_hash = None
       THEN ctx
       ELSE TrackTxs(ctx, payload.transactions, ctx.current_parent_hash,
                     payload.index, ctx.current_block_number)

\* process_flashblock_payload without the "no block context yet" return
process_flashblock_payload_NoContextCheck(st, payload, source_url) ==
    LET received == [st EXCEPT !.total_flashblocks_received = @ + 1]
        ctx == ContextAfterMetadata(ContextAfterBase(received, payload), payload)
    IN IF payload.index = 0
       THEN ctx
       ELSE TrackTxs(ctx, payload.transactions, ctx.current_parent_hash,
                     payload.index, ctx.current_block_number)

\* process_flashblock_payload(payload, source_url): the tester after the call.
\* source_url is used in log lines only.
process_flashblock_payload(st, payload, source_url) ==
    LET received == [st EXCEPT !.total_flashblocks_received = @ + 1]
        ctx == ContextAfterMetadata(ContextAfterBase(received, payload), payload)
    IN IF ctx.current_block_number = NoneInt \/ ctx.current_parent_hash = None
       THEN ctx
       ELSE IF payload.index = 0
       THEN ctx
       ELSE TrackTxs(ctx, payload.transactions, ctx.current_parent_hash,
                     payload.index, ctx.current_block_number)

----------------------------------------------------------------------------
(* The canonical chain behind the RPC endpoint.                             *)

\* tx.get("hash", "") of a transaction object without a hash field
EmptyHash == 0

RECURSIVE SeqOfSet(_)
\* the elements of a set of numbers in ascending order
SeqOfSet(S) ==
    IF S = {} THEN <<>>
    ELSE LET m == CHOOSE x \in S : \A y \in S : x <= y
         IN <<m>> \o SeqOfSet(S \ {m})

\* The transactions field of a block object: bare hash strings, or
\* transaction objects carrying a hash field.
\* Here the entries alternate between the two forms.
BlockTransactions(S) ==
    LET hs == SeqOfSet(S)
    IN [i \in 1..Len(hs) |->
           [kind |-> IF i % 2 = 1 THEN "dict" ELSE "str", hash |-> hs[i]]]

\* A block object as eth_getBlockByNumber returns it; ok = FALSE is the None
\* of a failed call or of a null result.
RpcBlock(n, S) ==
    [ok |-> TRUE, number |-> Hex(n), transactions |-> BlockTransactions(S)]
RpcNone == [ok |-> FALSE, number |-> <<0>>, transactions |-> <<>>]

\* What the endpoint answers to the calls for one block number made during one
\* handler run: unreachable throughout, or a block (after one failed call when
\* fails_first).  Once a call for a number succeeds its snapshot is cached and
\* the number is not asked for again, so longer runs of failures add nothing.
Unreachable == [reachable |-> FALSE, fails_first |-> FALSE, txs |-> {}]
RpcAnswers ==
    {Unreachable} \cup [reachable : {TRUE}, fails_first : BOOLEAN, txs : SUBSET Hashes]

\* get_block_from_rpc(hex(block_number)), the attempt-th call (from 0) for this
\* number in this handler run; the endpoint returns the block it was asked for
get_block_from_rpc(rpc, block_id, attempt) ==
    LET a == IF IntOfHex(block_id) \in DOMAIN rpc THEN rpc[IntOfHex(block_id)]
             ELSE Unreachable
    IN IF ~a.reachable \/ (a.fails_first /\ attempt = 0)
       THEN RpcNone
       ELSE RpcBlock(IntOfHex(block_id), a.txs)

\* check_canonical_block, the normalisation of block["transactions"] to a set
CanonicalTxHashes(txs) ==
    {IF txs[i].kind = "str" THEN txs[i].hash
     ELSE IF txs[i].kind = "dict" THEN txs[i].hash
     ELSE EmptyHash : i \in 1..Len(txs)}

\* FinalizeBlock comparing against the snapshot of the latest canonical block
\* instead of the snapshot of block_number
FinalizeBlock_LatestSnapshot(t, block_number) ==
    LET canonical_txs ==
            IF t.latest_canonical_block \in DOMAIN t.canonical_blocks
            THEN t.canonical_blocks[t.latest_canonical_block] ELSE {}
        flashblock_txs == DictGet(t.txs_by_block, block_number)
        pending == {h \in flashblock_txs :
                        /\ h \in DOMAIN t.transactions
                        /\ t.transactions[h].status = PENDING}
        confirmed == pending \cap canonical_txs
        missing == pending \ canonical_txs
    IN [t EXCEPT
          !.transactions =
              [h \in DOMAIN @ |->
                  IF h \in confirmed THEN [@[h] EXCEPT !.status = CONFIRMED]
                  ELSE IF h \in missing THEN [@[h] EXCEPT !.status = MISSING]
                  ELSE @[h]],
          !.total_confirmed = @ + Cardinality(confirmed),
          !.total_missing = @ + Cardinality(missing),
          !.total_reorg_count = IF missing # {} THEN @ + 1 ELSE @,
          !.txs_by_block = DictDel(@, block_number)]

\* FinalizeBlock going over every tracked transaction expected at block_number,
\* whatever its status, instead of over the pending ones of the block's entry
FinalizeBlock_Revisit(t, block_number) ==
    LET canonical_txs ==
            IF block_number \in DOMAIN t.canonical_blocks
            THEN t.canonical_blocks[block_number] ELSE {}
        revisited == {h \in DOMAIN t.transactions :
                        t.transactions[h].block_number = block_number}
        confirmed == revisited \cap canonical_txs
        missing == revisited \ canonical_txs
    IN [t EXCEPT
          !.transactions =
              [h \in DOMAIN @ |->
                  IF h \in confirmed THEN [@[h] EXCEPT !.status = CONFIRMED]
                  ELSE IF h \in missing THEN [@[h] EXCEPT !.status = MISSING]
                  ELSE @[h]],
          !.total_confirmed = @ + Cardinality(confirmed),
          !.total_missing = @ + Cardinality(missing),
          !.total_reorg_count = IF missing # {} THEN @ + 1 ELSE @,
          !.txs_by_block = DictDel(@, block_number)]

\* FinalizeBlock adding one reorg per missing transaction instead of one per block
FinalizeBlock_ReorgPerTx(t, block_number) ==
    LET canonical_txs ==
            IF block_number \in DOMAIN t.canonical_blocks
            THEN t.canonical_blocks[block_number] ELSE {}
        flashblock_txs == DictGet(t.txs_by_block, block_number)
        pending == {h \in flashblock_txs :
                        /\ h \in DOMAIN t.transactions
                        /\ t.transactions[h].status = PENDING}
        confirmed == pending \cap canonical_txs
        missing == pending \ canonical_txs
    IN [t EXCEPT
          !.transactions =
              [h \in DOMAIN @ |->
                  IF h \in confirmed THEN [@[h] EXCEPT !.status = CONFIRMED]
                  ELSE IF h \in missing THEN [@[h] EXCEPT !.status = MISSING]
                  ELSE @[h]],
          !.total_confirmed = @ + Cardinality(confirmed),
          !.total_missing = @ + Cardinality(missing),
          !.total_reorg_count = @ + Cardinality(missing),
          !.txs_by_block = DictDel(@, block_number)]

\* FinalizeBlock without the final "del self.tracker.txs_by_block[block_number]"
FinalizeBlock_KeepEntry(t, block_number) ==
    LET canonical_txs ==
            IF block_number \in DOMAIN t.canonical_blocks
            THEN t.canonical_blocks[block_number] ELSE {}
        flashblock_txs == DictGet(t.txs_by_block, block_number)
        pending == {h \in flashblock_txs :
                        /\ h \in DOMAIN t.transactions
                        /\ t.transactions[h].status = PENDING}
        confirmed == pending \cap canonical_txs
        missing == pending \ canonical_txs
    IN [t EXCEPT
          !.transactions =
              [h \in DOMAIN @ |->
                  IF h \in confirmed THEN [@[h] EXCEPT !.status = CONFIRMED]
                  ELSE IF h \in missing THEN [@[h] EXCEPT !.status = MISSING]
                  ELSE @[h]],
          !.total_confirmed = @ + Cardinality(confirmed),
          !.total_missing = @ + Cardinality(missing),
          !.total_reorg_count = IF missing # {} THEN @ + 1 ELSE @]

\* _finalize_old_blocks, the body of the loop after the snapshot lookup: the
\* status transitions of the block's pending transactions, the counters, the
\* reorg count and the removal of the block's entry
FinalizeBlock(t, block_number) ==
    LET canonical_txs ==
            IF block_number \in DOMAIN t.canonical_blocks
            THEN t.canonical_blocks[block_number] ELSE {}
        flashblock_txs == DictGet(t.txs_by_block, block_number)
        pending == {h \in flashblock_txs :
                        /\ h \in DOMAIN t.transactions
                        /\ t.transactions[h].status = PENDING}
        confirmed == pending \cap canonical_txs
        missing == pending \ canonical_txs
    IN [t EXCEPT
          !.transactions =
              [h \in DOMAIN @ |->
                  IF h \in confirmed THEN [@[h] EXCEPT !.status = CONFIRMED]
                  ELSE IF h \in missing THEN [@[h] EXCEPT !.status = MISSING]
                  ELSE @[h]],
          !.total_confirmed = @ + Cardinality(confirmed),
          !.total_missing = @ + Cardinality(missing),
          !.total_reorg_count = IF missing # {} THEN @ + 1 ELSE @,
          !.txs_by_block = DictDel(@, block_number)]

RECURSIVE check_canonical_block(_, _, _)
RECURSIVE FinalizeLoop(_, _, _)

\* finalize_old_blocks with the threshold one block too high (a lag of
\* blocks_to_confirm_after - 1)
finalize_old_blocks_EarlyThreshold(t, rpc) ==
    LET finalization_threshold == t.latest_canonical_block - blocks_to_confirm_after + 1
        blocks_to_check ==
            SelectSeq(DictKeys(t.txs_by_block), LAMBDA bn : bn <= finalization_threshold)
    IN FinalizeLoop(t, blocks_to_check, rpc)

\* _finalize_old_blocks(): the threshold, the list of block numbers to check
\* (a copy of the keys, taken once), then the loop over that list
finalize_old_blocks(t, rpc) ==
    LET finalization_threshold == t.latest_canonical_block - blocks_to_confirm_after
        blocks_to_check ==
            SelectSeq(DictKeys(t.txs_by_block), LAMBDA bn : bn <= finalization_threshold)
    IN FinalizeLoop(t, blocks_to_check, rpc)

RECURSIVE FinalizeLoop_NoContinue(_, _, _)
\* FinalizeLoop without the "continue" after a failed fetch: the block is
\* finalized against canonical_blocks.get(block_number, set())
FinalizeLoop_NoContinue(t, blocks_to_check, rpc) ==
    IF blocks_to_check = <<>> THEN t
    ELSE LET block_number == Head(blocks_to_check)
             rest == Tail(blocks_to_check)
         IN IF block_number \in DOMAIN t.canonical_blocks
            THEN FinalizeLoop_NoContinue(FinalizeBlock(t, block_number), rest, rpc)
            ELSE LET block == get_block_from_rpc(rpc, Hex(block_number),
                                                 t.attempts[block_number])
                     called == [t EXCEPT !.attempts[block_number] = @ + 1]
                 IN IF block.ok
                    THEN FinalizeLoop_NoContinue(
                             FinalizeBlock(
                                 check_canonical_block(called, block, rpc),
                                 block_number),
                             rest, rpc)
                    ELSE FinalizeLoop_NoContinue(
                             FinalizeBlock(
                                 [called EXCEPT !.rpc_failed = @ \cup {block_number}],
                                 block_number),
                             rest, rpc)

\* _finalize_old_blocks, the for loop over blocks_to_check
FinalizeLoop(t, blocks_to_check, rpc) ==
    IF blocks_to_check = <<>> THEN t
    ELSE LET block_number == Head(blocks_to_check)
             rest == Tail(blocks_to_check)
         IN IF block_number \in DOMAIN t.canonical_blocks
            THEN FinalizeLoop(FinalizeBlock(t, block_number), rest, rpc)
            ELSE LET block == get_block_from_rpc(rpc, Hex(block_number),
                                                 t.attempts[block_number])
                     called == [t EXCEPT !.attempts[block_number] = @ + 1]
                 IN IF block.ok
                    THEN FinalizeLoop(
                             FinalizeBlock(
                                 check_canonical_block(
                                     called, block, rpc),
                                 block_number),
                             rest, rpc)
                    ELSE FinalizeLoop(
                             [called EXCEPT !.rpc_failed = @ \cup {block_number}],
                             rest, rpc)

\* check_canonical_block that stores the snapshot and does not call
\* _finalize_old_blocks
check_canonical_block_NoFinalize(t, block, rpc) ==
    LET block_number == IntOfHex(block.number)
        canonical_tx_hashes == CanonicalTxHashes(block.transactions)
    IN [t EXCEPT
          !.canonical_blocks = MapPut(@, block_number, canonical_tx_hashes),
          !.latest_canonical_block = IF block_number > @ THEN block_number ELSE @]

\* check_canonical_block that sets latest_canonical_block to the number of
\* every block it is given (no "if block_number > latest_canonical_block")
check_canonical_block_AlwaysAdvance(t, block, rpc) ==
    LET block_number == IntOfHex(block.number)
        canonical_tx_hashes == CanonicalTxHashes(block.transactions)
        stored == [t EXCEPT
                     !.canonical_blocks = MapPut(@, block_number, canonical_tx_hashes),
                     !.latest_canonical_block = block_number]
    IN finalize_old_blocks(stored, rpc)

\* check_canonical_block(block)
check_canonical_block(t, block, rpc) ==
    LET block_number == IntOfHex(block.number)
        canonical_tx_hashes == CanonicalTxHashes(block.transactions)
        stored == [t EXCEPT
                     !.canonical_blocks = MapPut(@, block_number, canonical_tx_hashes),
                     !.latest_canonical_block =
                         IF block_number > @ THEN block_number ELSE @]
    IN finalize_old_blocks(stored, rpc)

\* The block numbers a poll that gets block n as latest can ask the endpoint
\* for: when n is ingested, the tracked block numbers at or below the
\* threshold that have no snapshot.
FetchCandidates(n) ==
    IF n <= last_block THEN {}
    ELSE {bn \in DictKeySet(txs_by_block) :
            /\ bn \notin DOMAIN canonical_blocks
            /\ bn # n
            /\ \/ bn <= n - blocks_to_confirm_after
               \/ bn <= latest_canonical_block - blocks_to_confirm_after}

\* The chain includes a transaction in at most one block: the transaction
\* sets the endpoint reports for different block numbers are disjoint.
OneBlockPerTx(n, S, rpc) ==
    LET reported == [bn \in Blocks |->
                        IF bn = n THEN S
                        ELSE IF bn \in DOMAIN rpc THEN rpc[bn].txs
                        ELSE IF bn \in DOMAIN canonical_blocks THEN canonical_blocks[bn]
                        ELSE {}]
    IN \A a \in Blocks : \A b \in Blocks : a # b => reported[a] \cap reported[b] = {}

\* poll_canonical_blocks with "block_number >= last_block"
poll_canonical_blocks_ReingestEqual(st, latest, rpc) ==
    LET block_number == IntOfHex(latest.number)
    IN IF latest.ok /\ block_number >= st.last_block
       THEN [check_canonical_block(st, latest, rpc) EXCEPT !.last_block = block_number]
       ELSE st

\* poll_canonical_blocks, one iteration of the loop: latest is the answer to
\* get_block_from_rpc("latest"), rpc the answers to the calls finalization makes
poll_canonical_blocks(st, latest, rpc) ==
    LET block_number == IntOfHex(latest.number)
    IN IF latest.ok /\ block_number > st.last_block
       THEN [check_canonical_block(st, latest, rpc) EXCEPT !.last_block = block_number]
       ELSE st

----------------------------------------------------------------------------
(* The state machine.                                                       *)

\* The tester object, the tracker it owns and the local of the reconciler loop
Tester ==
    [transactions |-> transactions, txs_by_block |-> txs_by_block,
     canonical_blocks |-> canonical_blocks,
     latest_canonical_block |-> latest_canonical_block,
     total_flashblocks_received |-> total_flashblocks_received,
     total_txs_tracked |-> total_txs_tracked,
     total_confirmed |-> total_confirmed, total_missing |-> total_missing,
     total_reorg_count |-> total_reorg_count,
     reconnection_count |-> reconnection_count,
     current_parent_hash |-> current_parent_hash,
     current_block_number |-> current_block_number,
     current_payload_id |-> current_payload_id,
     last_block |-> last_block,
     decode_error_logged |-> decode_error_logged,
     rpc_failed |-> {},
     attempts |-> [bn \in Blocks |-> 0]]

\* The handler's result becomes the next state.
Becomes(st) ==
    /\ transactions' = st.transactions
    /\ txs_by_block' = st.txs_by_block
    /\ canonical_blocks' = st.canonical_blocks
    /\ latest_canonical_block' = st.latest_canonical_block
    /\ total_flashblocks_received' = st.total_flashblocks_received
    /\ total_txs_tracked' = st.total_txs_tracked
    /\ total_confirmed' = st.total_confirmed
    /\ total_missing' = st.total_missing
    /\ total_reorg_count' = st.total_reorg_count
    /\ reconnection_count' = st.reconnection_count
    /\ current_parent_hash' = st.current_parent_hash
    /\ current_block_number' = st.current_block_number
    /\ current_payload_id' = st.current_payload_id
    /\ last_block' = st.last_block
    /\ decode_error_logged' = st.decode_error_logged
    /\ rpc_failed' = st.rpc_failed

\* FlashblockReorgTester.__init__ and BlockTracker()
InitTracker ==
    /\ transactions = <<>>
    /\ txs_by_block = <<>>
    /\ canonical_blocks = <<>>
    /\ latest_canonical_block = 0
    /\ total_flashblocks_received = 0
    /\ total_txs_tracked = 0
    /\ total_confirmed = 0
    /\ total_missing = 0
    /\ total_reorg_count = 0
    /\ reconnection_count = 0
    /\ current_parent_hash = None
    /\ current_block_number = NoneInt
    /\ current_payload_id = None
    /\ last_block = 0
    /\ decode_error_logged = FALSE
    /\ rpc_failed = {}

\* FlashblockReorgTester.__init__ sets the running flag; run() creates one
\* subscriber task per stream, the reconciler task and, when a duration is
\* given, the duration_limit task.  reconnect_delay = 1 is the first
\* statement of a subscriber.
InitTasks(with_duration) ==
    /\ running = TRUE
    /\ subscriber = [s \in Streams |->
                        [pc |-> "start", reconnect_delay |-> 1, retries |-> 0]]
    /\ poller = "start"
    /\ duration_limit = IF with_duration THEN "sleeping" ELSE "none"
    /\ summary = <<>>
    /\ connection_failures = 0

\* The tracker handlers on their own: the tasks stay as created.
Init == InitTracker /\ InitTasks(FALSE)

\* A subscriber receives a payload and hands it to the tracker.
Flashblock ==
    \E source_url \in Streams : \E payload \in Payloads(source_url) :
        /\ total_flashblocks_received < MaxFlashblocks
        /\ Becomes(process_flashblock_payload(Tester, payload, source_url))
        /\ UNCHANGED task_vars

\* The reconciler loop polls and gets a head above its high-water mark.
Poll ==
    \E n \in Blocks : \E S \in SUBSET Hashes :
        \E rpc \in [FetchCandidates(n) -> RpcAnswers] :
            /\ n > last_block
            /\ OneBlockPerTx(n, S, rpc)
            /\ Becomes(poll_canonical_blocks(Tester, RpcBlock(n, S), rpc))
            /\ UNCHANGED task_vars

\* The poll gets a head that is not above the loop's high-water mark.
PollStale ==
    \E n \in Blocks :
        /\ n <= last_block
        /\ Becomes(poll_canonical_blocks(Tester, RpcBlock(n, {}), <<>>))
        /\ UNCHANGED task_vars

\* The poll fails (RPC error, timeout, null result).
PollFails ==
    /\ Becomes(poll_canonical_blocks(Tester, RpcNone, <<>>))
    /\ UNCHANGED task_vars

Next == Flashblock \/ Poll \/ PollStale \/ PollFails

Spec == Init /\ [][Next]_vars

----------------------------------------------------------------------------
(* The tasks of run(): stream subscribers, reconciler, duration limit.      *)
(* A step runs a task from one await to the next.                           *)

\* Connection failures in a run are at most MaxFailures.
MaxFailures == 6
\* Messages handed to the tracker in a run of the tasks are at most MaxMessages.
MaxMessages == 1

\* subscribe_flashblocks_single: max_reconnect_delay
max_reconnect_delay == 30

\* What connect() raises: a websockets exception (invalid handshake, invalid
\* status) or another exception (OSError: refused, unreachable, timed out)
ConnectErrors == {"WebSocketException", "Exception"}
\* What the receive loop raises on an established connection: the abnormal
\* close, or another exception
StreamErrors == {"ConnectionClosed", "Exception"}

\* The except clauses of subscribe_flashblocks_single: the reconnection
\* counter after exception e
reconnection_count_after(count, e) ==
    IF e = "ConnectionClosed" THEN count + 1
    ELSE IF e = "WebSocketException" THEN count + 1
    ELSE count

\* reconnect_delay = min(reconnect_delay * 2, max_reconnect_delay) without the min
NextDelay_NoCap(reconnect_delay) ==
    reconnect_delay * 2

\* reconnect_delay = min(reconnect_delay * 2, max_reconnect_delay)
NextDelay(reconnect_delay) ==
    IF reconnect_delay * 2 < max_reconnect_delay
    THEN reconnect_delay * 2 ELSE max_reconnect_delay

\* The subscriber after its try statement: "if self.running" it goes to sleep
\* for reconnect_delay, otherwise the while test ends the task.
AfterTry(sub) ==
    IF running
    THEN [sub EXCEPT !.pc = "backoff", !.retries = @ + 1]
    ELSE [sub EXCEPT !.pc = "done"]

\* The subscriber at "while self.running"
WhileRunning(sub) ==
    IF running THEN [sub EXCEPT !.pc = "connecting"] ELSE [sub EXCEPT !.pc = "done"]

\* The subscriber task starts: reconnect_delay = 1, then the while test.
SubscriberStart(s) ==
    /\ subscriber[s].pc = "start"
    /\ subscriber' = [subscriber EXCEPT ![s] = WhileRunning(@)]
    /\ UNCHANGED <<running, poller, duration_limit, summary, connection_failures>>
    /\ Becomes(Tester)

\* connect() succeeds: the delay is reset and the receive loop waits.
ConnectOk(s) ==
    /\ subscriber[s].pc = "connecting"
    /\ subscriber' = [subscriber EXCEPT ![s] =
                         [pc |-> "connected", reconnect_delay |-> 1, retries |-> 0]]
    /\ UNCHANGED <<running, poller, duration_limit, summary, connection_failures>>
    /\ Becomes(Tester)

\* connect() raises e.
ConnectFails(s) ==
    \E e \in ConnectErrors :
        /\ subscriber[s].pc = "connecting"
        /\ connection_failures < MaxFailures
        /\ connection_failures' = connection_failures + 1
        /\ subscriber' = [subscriber EXCEPT ![s] = AfterTry(@)]
        /\ UNCHANGED <<running, poller, duration_limit, summary>>
        /\ Becomes([Tester EXCEPT
                       !.reconnection_count = reconnection_count_after(@, e)])

\* The established connection fails: the receive loop raises e.
ConnectionLost(s) ==
    \E e \in StreamErrors :
        /\ subscriber[s].pc = "connected"
        /\ connection_failures < MaxFailures
        /\ connection_failures' = connection_failures + 1
        /\ subscriber' = [subscriber EXCEPT ![s] = AfterTry(@)]
        /\ UNCHANGED <<running, poller, duration_limit, summary>>
        /\ Becomes([Tester EXCEPT
                       !.reconnection_count = reconnection_count_after(@, e)])

\* The server closes the connection normally: the receive loop ends without
\* an exception.
ConnectionEnds(s) ==
    /\ subscriber[s].pc = "connected"
    /\ subscriber' = [subscriber EXCEPT ![s] = AfterTry(@)]
    /\ UNCHANGED <<running, poller, duration_limit, summary, connection_failures>>
    /\ Becomes(Tester)

\* The payloads the feeds send while the tasks are studied: the index-0
\* payloads that open a block
TaskPayloads(source_url) == {p \in IndexZeroPayloads(source_url) : p.base.present}

\* A message arrives on the established connection: with the running flag
\* cleared the loop breaks and the task ends, otherwise the payload goes to
\* the tracker and the loop waits for the next message.
Receive(s) ==
    /\ subscriber[s].pc = "connected"
    /\ UNCHANGED <<running, poller, duration_limit, summary, connection_failures>>
    /\ IF ~running
       THEN /\ subscriber' = [subscriber EXCEPT ![s] = AfterTry(@)]
            /\ Becomes(Tester)
       ELSE /\ total_flashblocks_received < MaxMessages
            /\ UNCHANGED subscriber
            /\ \E payload \in TaskPayloads(s) :
                   Becomes(process_flashblock_payload(Tester, payload, s))

\* asyncio.sleep(reconnect_delay) returns: the delay doubles up to the
\* ceiling, then the while test.
SleepDone(s) ==
    /\ subscriber[s].pc = "backoff"
    /\ subscriber' = [subscriber EXCEPT ![s] =
                         WhileRunning([@ EXCEPT !.reconnect_delay = NextDelay(@)])]
    /\ UNCHANGED <<running, poller, duration_limit, summary, connection_failures>>
    /\ Becomes(Tester)

\* What the endpoint answers to the reconciler while the tasks are studied:
\* nothing, or block 1 without transactions
TaskHeads == {RpcNone, RpcBlock(1, {})}

\* poll_canonical_blocks: the while test at the start or after
\* asyncio.sleep(1.5), then one iteration up to the next sleep.
PollerStep ==
    /\ poller \in {"start", "sleeping"}
    /\ UNCHANGED <<running, subscriber, duration_limit, summary, connection_failures>>
    /\ IF running
       THEN /\ poller' = "sleeping"
            /\ \E latest \in TaskHeads :
                   Becomes(poll_canonical_blocks(Tester, latest, <<>>))
       ELSE /\ poller' = "done"
            /\ Becomes(Tester)

\* duration_limit(): asyncio.sleep(self.duration) returns and the flag is cleared.
DurationElapsed ==
    /\ duration_limit = "sleeping"
    /\ duration_limit' = "done"
    /\ running' = FALSE
    /\ UNCHANGED <<subscriber, poller, summary, connection_failures>>
    /\ Becomes(Tester)

\* main(): signal_handler on SIGINT or SIGTERM clears the flag.
Interrupt ==
    /\ running
    /\ summary = <<>>
    /\ running' = FALSE
    /\ UNCHANGED <<subscriber, poller, duration_limit, summary, connection_failures>>
    /\ Becomes(Tester)

\* Every task of asyncio.gather has returned
AllTasksDone ==
    /\ \A s \in Streams : subscriber[s].pc = "done"
    /\ poller = "done"
    /\ duration_limit \in {"none", "done"}

\* print_summary() that reports PASS only when every tracked transaction was
\* confirmed, so that a pending transaction makes the run a FAIL
print_summary_PendingFails(st) ==
    LET pending == Cardinality({h \in DOMAIN st.transactions :
                                   st.transactions[h].status = PENDING})
    IN [reconnections |-> st.reconnection_count,
        flashblocks_received |-> st.total_flashblocks_received,
        txs_tracked |-> st.total_txs_tracked,
        confirmed |-> st.total_confirmed,
        missing |-> st.total_missing,
        still_pending |-> pending,
        result |-> IF st.total_confirmed = st.total_txs_tracked /\ st.total_txs_tracked > 0
                   THEN "PASS"
                   ELSE IF st.total_txs_tracked = 0 THEN "INCONCLUSIVE"
                   ELSE "FAIL",
        reorgs |-> st.total_reorg_count]

\* print_summary(): the figures and the result line
print_summary(st) ==
    LET pending == Cardinality({h \in DOMAIN st.transactions :
                                   st.transactions[h].status = PENDING})
    IN [reconnections |-> st.reconnection_count,
        flashblocks_received |-> st.total_flashblocks_received,
        txs_tracked |-> st.total_txs_tracked,
        confirmed |-> st.total_confirmed,
        missing |-> st.total_missing,
        still_pending |-> pending,
        result |-> IF st.total_missing = 0 /\ st.total_txs_tracked > 0 THEN "PASS"
                   ELSE IF st.total_txs_tracked = 0 THEN "INCONCLUSIVE"
                   ELSE "FAIL",
        reorgs |-> st.total_reorg_count]

\* run(): asyncio.gather returns when every task has, then the finally
\* clause clears the flag and prints the summary.
Gather ==
    /\ AllTasksDone
    /\ summary = <<>>
    /\ running' = FALSE
    /\ summary' = Append(summary, print_summary(Tester))
    /\ UNCHANGED <<subscriber, poller, duration_limit, connection_failures>>
    /\ Becomes(Tester)

TaskInit == InitTracker /\ \E with_duration \in BOOLEAN : InitTasks(with_duration)

TaskNext ==
    \/ \E s \in Streams : SubscriberStart(s)
    \/ \E s \in Streams : ConnectOk(s)
    \/ \E s \in Streams : ConnectFails(s)
    \/ \E s \in Streams : ConnectionLost(s)
    \/ \E s \in Streams : ConnectionEnds(s)
    \/ \E s \in Streams : Receive(s)
    \/ \E s \in Streams : SleepDone(s)
    \/ PollerStep
    \/ DurationElapsed
    \/ Interrupt
    \/ Gather

\* The event loop runs every task that is ready: a started task, a connect()
\* (it succeeds, fails or times out), an elapsed sleep, the gather.  Messages,
\* connection losses and signals come from outside and may never come.
TaskFairness ==
    /\ \A s \in Streams : WF_vars(SubscriberStart(s))
    /\ \A s \in Streams : WF_vars(ConnectOk(s) \/ ConnectFails(s))
    /\ \A s \in Streams : WF_vars(SleepDone(s))
    /\ WF_vars(PollerStep)
    /\ WF_vars(DurationElapsed)
    /\ WF_vars(Gather)

Tasks == TaskInit /\ [][TaskNext]_vars /\ TaskFairness

----------------------------------------------------------------------------
(* Vocabulary of the properties.                                            *)

Tracked == DOMAIN transactions
Keys == DictKeySet(txs_by_block)
IsTerminal(status) == status \in {CONFIRMED, MISSING}
Threshold == latest_canonical_block - blocks_to_confirm_after

\* A step in which the reconciler loop ran check_canonical_block, and with it
\* a finalization pass: the only steps that move the loop's high-water mark.
PassStep == last_block' # last_block

\* The transactions whose status differs between the two states of a step
Transitioned ==
    {h \in Tracked : h \in DOMAIN transactions' /\ transactions'[h].status # transactions[h].status}

----------------------------------------------------------------------------
\* C1: over every interleaving of flashblock and canonical ingestions, a tracked
\* transaction stays tracked and its status changes only from pending to
\* confirmed or from pending to missing; a confirmed or missing transaction
\* keeps its status in every later step.
C1_StatusChangesOnce ==
    [][\A h \in Tracked :
          /\ h \in DOMAIN transactions'
          /\ transactions'[h].status # transactions[h].status
                => /\ transactions[h].status = PENDING
                   /\ IsTerminal(transactions'[h].status)]_vars

\* A missing transaction, and a pending one tracked for the same block number
\* after that block was finalized.
C1_Witness ==
    \E g \in Tracked : \E h \in Tracked :
        /\ transactions[g].status = MISSING
        /\ transactions[h].status = PENDING
        /\ transactions[g].block_number = transactions[h].block_number

----------------------------------------------------------------------------
\* C2: in every reachable state, every confirmed or missing transaction has an
\* expected block number b with b <= latest_canonical_block -
\* blocks_to_confirm_after: no transaction leaves pending while the head is
\* less than the lag ahead of its block, nested finalization included.
C2_FinalizedOnlyBelowThreshold ==
    \A h \in Tracked :
        IsTerminal(transactions[h].status) => transactions[h].block_number <= Threshold

\* Transactions of two block numbers were finalized in a pass that fetched a
\* snapshot itself, one of them exactly at the threshold.
C2_Witness ==
    \E g \in Tracked : \E h \in Tracked :
        /\ IsTerminal(transactions[g].status)
        /\ IsTerminal(transactions[h].status)
        /\ transactions[g].block_number = Threshold
        /\ transactions[h].block_number < Threshold
        /\ transactions[h].block_number \in DOMAIN canonical_blocks
        /\ transactions[h].block_number < last_block

----------------------------------------------------------------------------
\* C3: a finalization pass leaves no transaction pending whose expected block
\* b has latest_canonical_block - b >= blocks_to_confirm_after and a canonical
\* snapshot (cached before the pass or fetched during it) at the end of the
\* pass: a pending transaction is finalized by the first pass in which both
\* hold.
C3_FinalizedOnFirstEligiblePass ==
    [][PassStep =>
          \A h \in Tracked :
              (/\ transactions[h].block_number <= latest_canonical_block' - blocks_to_confirm_after
               /\ transactions[h].block_number \in DOMAIN canonical_blocks')
                  => IsTerminal(transactions'[h].status)]_vars

\* After a pass: a transaction finalized for a block whose snapshot the pass
\* fetched itself, at the second call (the first one failed), while the pass
\* was finalizing another block as well.
C3_Witness ==
    \E g \in Tracked : \E h \in Tracked :
        /\ IsTerminal(transactions[h].status)
        /\ transactions[h].block_number \in rpc_failed
        /\ IsTerminal(transactions[g].status)
        /\ transactions[g].block_number # transactions[h].block_number

----------------------------------------------------------------------------
\* The transactions of Transitioned that end in the given status
TransitionedTo(status) == {h \in Transitioned : transactions'[h].status = status}

\* The block numbers whose entry a step processes and removes
Processed == Keys \ DictKeySet(txs_by_block')

\* C4: when finalization processes block b, every hash of txs_by_block[b]
\* becomes confirmed exactly when it is in the snapshot stored for b and missing
\* otherwise, so none of them is pending afterwards; total_confirmed and
\* total_missing grow by one per such transition.
C4_ConfirmedMissingPartition ==
    [][/\ \A b \in Processed :
             /\ b \in DOMAIN canonical_blocks'
             /\ \A h \in DictGet(txs_by_block, b) :
                   /\ transactions[h].status = PENDING
                   /\ transactions'[h].status =
                          IF h \in canonical_blocks'[b] THEN CONFIRMED ELSE MISSING
       /\ total_confirmed' = total_confirmed + Cardinality(TransitionedTo(CONFIRMED))
       /\ total_missing' = total_missing + Cardinality(TransitionedTo(MISSING))]_vars

\* Scenario A: two transactions tracked for one block, the block's snapshot
\* holds one of them; one is confirmed, the other missing, one reorg counted.
C4_Witness ==
    \E g \in Tracked : \E h \in Tracked :
        /\ transactions[g].block_number = transactions[h].block_number
        /\ transactions[g].status = CONFIRMED
        /\ transactions[h].status = MISSING
        /\ canonical_blocks[transactions[g].block_number] = {g}
        /\ total_confirmed = 1
        /\ total_missing = 1
        /\ total_reorg_count = 1

----------------------------------------------------------------------------
\* The tester after a payload is ingested once, and after the same payload
\* (delivered by source_url2) is ingested again right after it
IngestedOnce(payload, source_url) ==
    process_flashblock_payload(Tester, payload, source_url)
IngestedAgain(once, payload, source_url2) ==
    process_flashblock_payload(
        once, [payload EXCEPT !.payload_id = PayloadIdOf(source_url2)], source_url2)

\* The index > 0 payloads the Flashblock action can ingest in this state
CanIngest(source_url) ==
    IF total_flashblocks_received < MaxFlashblocks THEN IndexPosPayloads(source_url) ELSE {}

\* The size of `transactions` and the counters other than
\* total_flashblocks_received agree between two testers
SameTrackedAndCounted(a, b) ==
    /\ Cardinality(DOMAIN a.transactions) = Cardinality(DOMAIN b.transactions)
    /\ a.total_txs_tracked = b.total_txs_tracked
    /\ a.total_confirmed = b.total_confirmed
    /\ a.total_missing = b.total_missing
    /\ a.total_reorg_count = b.total_reorg_count
    /\ a.reconnection_count = b.reconnection_count

\* C5 as stated: in every reachable state, ingesting an index > 0 payload twice,
\* from the same or from different streams, gives the same size of
\* `transactions` and the same value of every counter, flashblocks received
\* included, as ingesting it once.
C5_Original ==
    \A s1 \in Streams : \A s2 \in Streams : \A payload \in CanIngest(s1) :
        LET once == IngestedOnce(payload, s1)
            twice == IngestedAgain(once, payload, s2)
        IN /\ SameTrackedAndCounted(twice, once)
           /\ twice.total_flashblocks_received = once.total_flashblocks_received

\* C5 amended: the second ingestion changes neither `transactions` nor
\* txs_by_block nor any counter except total_flashblocks_received, which
\* counts the second payload too.
C5_IdempotentExceptReceived ==
    \A s1 \in Streams : \A s2 \in Streams : \A payload \in CanIngest(s1) :
        LET once == IngestedOnce(payload, s1)
            twice == IngestedAgain(once, payload, s2)
        IN /\ SameTrackedAndCounted(twice, once)
           /\ twice.transactions = once.transactions
           /\ twice.txs_by_block = once.txs_by_block
           /\ twice.total_flashblocks_received = once.total_flashblocks_received + 1

\* A state with a context, one transaction tracked and one not: a payload with
\* both is ingested from here once and twice, after an earlier payload that
\* brought the tracked one.
C5_Witness ==
    /\ current_parent_hash # None
    /\ current_block_number # NoneInt
    /\ Tracked # {}
    /\ Tracked # Hashes
    /\ \E s1 \in Streams : \E payload \in IndexPosPayloads(s1) :
          IngestedOnce(payload, s1).total_txs_tracked = total_txs_tracked + 1

----------------------------------------------------------------------------
\* C6: a tracked transaction is never dropped and its expected block number,
\* flashblock index and parent hash stay as recorded at first sight, whatever
\* stream delivers the hash again; total_txs_tracked is the number of entries
\* of `transactions` in every state.
C6_OneEntityPerHash ==
    [][/\ total_txs_tracked' = Cardinality(DOMAIN transactions')
       /\ \A h \in Tracked :
             /\ h \in DOMAIN transactions'
             /\ transactions'[h].block_number = transactions[h].block_number
             /\ transactions'[h].flashblock_index = transactions[h].flashblock_index
             /\ transactions'[h].parent_hash = transactions[h].parent_hash]_vars

\* Every hash is tracked, and the context has moved on to the other stream's
\* parent and to another block number than the ones recorded for a transaction.
C6_Witness ==
    /\ Tracked = Hashes
    /\ \E h \in Tracked :
          /\ transactions[h].parent_hash # current_parent_hash
          /\ transactions[h].block_number # current_block_number
    /\ total_flashblocks_received = MaxFlashblocks

----------------------------------------------------------------------------
\* C7: every tracked transaction has flashblock_index > 0, and in every
\* reachable state ingesting a payload with index 0 (with or without base,
\* with or without a metadata block number) changes neither `transactions`
\* nor txs_by_block nor total_txs_tracked.
C7_IndexZeroExcluded ==
    /\ \A h \in Tracked : transactions[h].flashblock_index > 0
    /\ \A i \in 1..Len(txs_by_block) : txs_by_block[i].txs \subseteq Tracked
    /\ \A s1 \in Streams : \A payload \in IndexZeroPayloads(s1) :
          LET once == IngestedOnce(payload, s1)
          IN /\ once.transactions = transactions
             /\ once.txs_by_block = txs_by_block
             /\ once.total_txs_tracked = total_txs_tracked

\* An index-0 payload with base was ingested (it carries every body), an
\* index > 0 payload tracked one transaction, and the other body, delivered at
\* index 0 only, is not tracked.
C7_Witness ==
    /\ current_parent_hash # None
    /\ Tracked # {}
    /\ Tracked # Hashes
    /\ total_flashblocks_received = 2

----------------------------------------------------------------------------
\* The block numbers for which every get_block_from_rpc of the step's pass
\* failed: tracked, at or below the threshold, without a snapshot before and
\* after the pass
FetchFailed ==
    {b \in Keys : /\ b <= latest_canonical_block' - blocks_to_confirm_after
                  /\ b \notin DOMAIN canonical_blocks
                  /\ b \in rpc_failed'
                  /\ b \notin DOMAIN canonical_blocks'}

\* The block numbers whose snapshot the step's pass fetched
FetchSucceeded ==
    {b \in Keys : /\ b <= latest_canonical_block' - blocks_to_confirm_after
                  /\ b \notin DOMAIN canonical_blocks
                  /\ b \in DOMAIN canonical_blocks'}

\* C8: a pass in which the fetch of block b (at or below the threshold, no
\* cached snapshot) fails leaves txs_by_block[b], the transactions expected at
\* b and with them the counters as they are; a pass in which the fetch
\* succeeds removes the entry and leaves none of its transactions pending;
\* and in every state total_confirmed + total_missing is the number of
\* confirmed or missing transactions, each counted once.
C8_FailedFetchLeavesBlockPending ==
    [][PassStep =>
          /\ \A b \in FetchFailed :
                /\ b \in DictKeySet(txs_by_block')
                /\ DictGet(txs_by_block', b) = DictGet(txs_by_block, b)
                /\ \A h \in DictGet(txs_by_block, b) :
                      /\ transactions'[h] = transactions[h]
                      /\ transactions[h].status = PENDING
          /\ (Processed = {} =>
                 /\ total_confirmed' = total_confirmed
                 /\ total_missing' = total_missing
                 /\ total_reorg_count' = total_reorg_count)
          /\ \A b \in FetchSucceeded :
                /\ b \notin DictKeySet(txs_by_block')
                /\ \A h \in DictGet(txs_by_block, b) : IsTerminal(transactions'[h].status)
          /\ total_confirmed' + total_missing'
                = Cardinality({h \in DOMAIN transactions' : IsTerminal(transactions'[h].status)})]_vars

\* Scenario C, after the failed pass: block b is at or below the threshold,
\* its fetch failed, its entry is in place with a pending transaction and
\* nothing has been counted.
C8_Witness ==
    \E b \in rpc_failed :
        /\ b <= Threshold
        /\ b \notin DOMAIN canonical_blocks
        /\ DictGet(txs_by_block, b) # {}
        /\ \A h \in DictGet(txs_by_block, b) : transactions[h].status = PENDING
        /\ total_confirmed + total_missing = 0

----------------------------------------------------------------------------
\* C9 as stated: once the entry of a block number has been processed and
\* removed (a transaction expected at it is confirmed or missing), no later
\* step performs a status transition for that block number.
C9_Original ==
    [][\A h \in Transitioned :
          ~ \E g \in Tracked :
                /\ IsTerminal(transactions[g].status)
                /\ transactions[g].block_number = transactions[h].block_number]_vars

\* C9 amended: a pass never revisits a finalized transaction.  Whenever a
\* block number is processed, also when it is processed again because a
\* later flashblock re-created its entry, the transactions finalized earlier
\* for it are outside the entry and keep their status, and the counters
\* grow by exactly the size of the processed entries, so by the transactions
\* tracked since the previous removal.
C9_FinalizedNeverRevisited ==
    [][/\ \A b \in Processed :
             \A g \in Tracked :
                 (transactions[g].block_number = b /\ IsTerminal(transactions[g].status))
                     => /\ g \notin DictGet(txs_by_block, b)
                        /\ transactions'[g] = transactions[g]
       /\ Transitioned = UNION {DictGet(txs_by_block, b) : b \in Processed}
       /\ (total_confirmed' + total_missing') - (total_confirmed + total_missing)
              = Cardinality(UNION {DictGet(txs_by_block, b) : b \in Processed})
       /\ total_reorg_count' - total_reorg_count
              = Cardinality({b \in Processed :
                                \E h \in DictGet(txs_by_block, b) :
                                    transactions'[h].status = MISSING})]_vars

\* A block number was processed twice: two transactions expected at it are
\* missing and two reorgs were counted for it.
C9_Witness ==
    \E g \in Tracked : \E h \in Tracked :
        /\ g # h
        /\ transactions[g].block_number = transactions[h].block_number
        /\ transactions[g].status = MISSING
        /\ transactions[h].status = MISSING
        /\ total_reorg_count = 2

----------------------------------------------------------------------------
\* C10 as stated: in every state reached when a finalization pass completes,
\* txs_by_block has no key at or below latest_canonical_block -
\* blocks_to_confirm_after.
C10_Original ==
    [][PassStep =>
          \A b \in DictKeySet(txs_by_block') :
              b > latest_canonical_block' - blocks_to_confirm_after]_vars

\* C10 amended: when a finalization pass completes, no entry of txs_by_block
\* is an empty set, no block number has two entries, and the only keys at or
\* below the threshold are block numbers that have no snapshot and whose
\* fetch failed in that pass.
C10_KeysAboveThresholdUnlessFetchFailed ==
    [][PassStep =>
          /\ \A i \in 1..Len(txs_by_block') : txs_by_block'[i].txs # {}
          /\ Cardinality(DictKeySet(txs_by_block')) = Len(txs_by_block')
          /\ \A b \in DictKeySet(txs_by_block') :
                b <= latest_canonical_block' - blocks_to_confirm_after
                    => /\ b \notin DOMAIN canonical_blocks'
                       /\ b \in rpc_failed']_vars

\* After a pass that processed and removed a block's entry: the entry of a
\* block above the threshold is still there, none at or below it.
C10_Witness ==
    /\ last_block > 0
    /\ \E h \in Tracked :
          /\ IsTerminal(transactions[h].status)
          /\ transactions[h].block_number \notin Keys
    /\ Keys # {}
    /\ \A b \in Keys : b > Threshold
    /\ rpc_failed = {}

----------------------------------------------------------------------------
\* The highest block number handed to check_canonical_block so far, or 0:
\* every ingested block leaves its snapshot in canonical_blocks.
HighestIngested(blocks) ==
    IF DOMAIN blocks = {} THEN 0
    ELSE CHOOSE b \in DOMAIN blocks : \A c \in DOMAIN blocks : c <= b

\* C11: latest_canonical_block never decreases and always equals the highest
\* block number ingested so far (0 before the first); a step that ingests a
\* block whose number is not above latest_canonical_block (an older block
\* fetched during finalization) stores its snapshot and leaves
\* latest_canonical_block as the head's ingestion set it.
C11_LatestCanonicalMonotone ==
    [][/\ latest_canonical_block = HighestIngested(canonical_blocks)
       /\ latest_canonical_block' >= latest_canonical_block
       /\ latest_canonical_block' = HighestIngested(canonical_blocks')
       /\ DOMAIN canonical_blocks \subseteq DOMAIN canonical_blocks'
       /\ \A b \in DOMAIN canonical_blocks' \ DOMAIN canonical_blocks :
             b <= latest_canonical_block'
       /\ (\A b \in DOMAIN canonical_blocks' \ DOMAIN canonical_blocks :
               b <= latest_canonical_block)
              => latest_canonical_block' = latest_canonical_block]_vars

\* An older block was ingested during finalization: its fetch failed once and
\* succeeded in the nested pass of the same handler run, so its snapshot is
\* stored, below the head that latest_canonical_block still names.
C11_Witness ==
    \E b \in rpc_failed :
        /\ b \in DOMAIN canonical_blocks
        /\ b < latest_canonical_block
        /\ latest_canonical_block = last_block

----------------------------------------------------------------------------
\* C12 as stated: the reconnection counter equals the number of stream
\* connection failures (transport error, abnormal close, unexpected
\* exception) that have occurred.
C12_Original ==
    reconnection_count = connection_failures

----------------------------------------------------------------------------
\* min(2^(k-1), 30): the delay the k-th consecutive wait is to last
ExpectedDelay(k) ==
    IF 2^(k - 1) < 30 THEN 2^(k - 1) ELSE 30

\* C13: the reconnect delay of every subscriber is within [1, 30] in every
\* state, is 1 while a connection is established, and the k-th consecutive
\* wait with no successful connection in between lasts min(2^(k-1), 30); so
\* the wait after the loss of an established connection lasts 1.
C13_BackoffDelay ==
    \A s \in Streams :
        /\ subscriber[s].reconnect_delay \in 1..30
        /\ subscriber[s].pc = "connected" => subscriber[s].reconnect_delay = 1
        /\ subscriber[s].pc = "backoff" =>
              /\ subscriber[s].retries >= 1
              /\ subscriber[s].reconnect_delay = ExpectedDelay(subscriber[s].retries)

\* A subscriber in its seventh consecutive wait, the second at the ceiling.
C13_Witness ==
    \E s \in Streams :
        /\ subscriber[s].pc = "backoff"
        /\ subscriber[s].retries = 7
        /\ subscriber[s].reconnect_delay = 30

----------------------------------------------------------------------------
\* C14 as stated: once the running flag is cleared, every task eventually
\* exits and the final summary is eventually emitted.
C14_Original ==
    (~running) ~> (AllTasksDone /\ summary # <<>>)

----------------------------------------------------------------------------
\* The tracked transactions with the given status
WithStatus(status) == {h \in Tracked : transactions[h].status = status}

\* C15: in every state a transaction whose expected block is above the
\* finalization threshold is pending, the summary's confirmed and missing
\* figures count exactly the confirmed and the missing transactions, its
\* "still pending" figure the pending ones, and total_txs_tracked =
\* total_confirmed + total_missing + number of pending transactions.
C15_PendingPartition ==
    LET report == print_summary(Tester)
    IN /\ \A h \in Tracked :
             transactions[h].block_number > Threshold
                 => transactions[h].status = PENDING
       /\ report.confirmed = Cardinality(WithStatus(CONFIRMED))
       /\ report.missing = Cardinality(WithStatus(MISSING))
       /\ report.still_pending = Cardinality(WithStatus(PENDING))
       /\ report.txs_tracked
              = report.confirmed + report.missing + report.still_pending
       /\ total_txs_tracked
              = total_confirmed + total_missing + Cardinality(WithStatus(PENDING))

\* Scenario E: the chain has reached its last block, one transaction is
\* finalized and one, expected at a block above the threshold, is pending.
C15_Witness ==
    /\ last_block = MaxBlock
    /\ \E h \in Tracked :
          /\ transactions[h].block_number > Threshold
          /\ transactions[h].status = PENDING
    /\ \E g \in Tracked : IsTerminal(transactions[g].status)

----------------------------------------------------------------------------
\* C16: a step raises total_reorg_count by one for every block it processes
\* in which a transaction became missing, whatever their number, and by
\* nothing for the other blocks; total_reorg_count <= total_missing, and
\* total_reorg_count > 0 exactly when total_missing > 0, in every state.
C16_ReorgCountedPerBlock ==
    [][/\ total_reorg_count' - total_reorg_count
             = Cardinality({b \in Processed :
                               \E h \in DictGet(txs_by_block, b) :
                                   /\ transactions[h].status = PENDING
                                   /\ transactions'[h].status = MISSING})
       /\ (TransitionedTo(MISSING) = {} => total_reorg_count' = total_reorg_count)
       /\ total_reorg_count <= total_missing
       /\ total_reorg_count' <= total_missing'
       /\ (total_reorg_count > 0) <=> (total_missing > 0)
       /\ (total_reorg_count' > 0) <=> (total_missing' > 0)]_vars

\* Two transactions of one block are missing and one reorg was counted.
C16_Witness ==
    \E g \in Tracked : \E h \in Tracked :
        /\ g # h
        /\ transactions[g].block_number = transactions[h].block_number
        /\ transactions[g].status = MISSING
        /\ transactions[h].status = MISSING
        /\ total_missing = 2
        /\ total_reorg_count = 1

----------------------------------------------------------------------------
\* The transactions a tester tracks that the current state does not
NewlyTracked(after) == DOMAIN after.transactions \ Tracked

\* The index-0 payloads with a base section a stream can send
BasePayloads(source_url) == {p \in IndexZeroPayloads(source_url) : p.base.present}

\* The index > 0 payloads without a metadata block number
PlainPayloads(source_url) ==
    {p \in IndexPosPayloads(source_url) : p.metadata_block_number = 0}

\* The index > 0 payloads with a metadata block number
MetadataPayloads(source_url) ==
    {p \in IndexPosPayloads(source_url) : p.metadata_block_number # 0}

\* C17: the block context is one value shared by the streams, last write
\* wins.  From every reachable state: an index-0 payload with base of any
\* stream replaces the context, whoever set it; an index > 0 payload without
\* metadata of any stream records its new transactions with the context's
\* block number and parent hash; and when stream B's index-0 payload arrives
\* between stream A's index-0 payload and A's index > 0 payload, A's new
\* transactions are recorded with B's block number and parent hash.
C17_SharedContextLastWriteWins ==
    /\ \A s1 \in Streams : \A p \in BasePayloads(s1) :
          LET once == IngestedOnce(p, s1)
          IN /\ once.current_block_number = IntOfHex(p.base.block_number)
             /\ once.current_parent_hash = p.base.parent_hash
             /\ once.current_payload_id = p.payload_id
    /\ \A s1 \in Streams : \A p \in PlainPayloads(s1) \cap CanIngest(s1) :
          LET once == IngestedOnce(p, s1)
          IN \A h \in NewlyTracked(once) :
                /\ once.transactions[h].block_number = current_block_number
                /\ once.transactions[h].parent_hash = current_parent_hash
    /\ total_flashblocks_received = 0 =>
          \A sA \in Streams : \A sB \in Streams \ {sA} :
             \A pA \in BasePayloads(sA) : \A pB \in BasePayloads(sB) :
                \A q \in PlainPayloads(sA) :
                   LET interleaved ==
                           process_flashblock_payload(
                               process_flashblock_payload(
                                   process_flashblock_payload(Tester, pA, sA),
                                   pB, sB),
                               q, sA)
                   IN \A h \in NewlyTracked(interleaved) :
                         /\ interleaved.transactions[h].block_number
                                = IntOfHex(pB.base.block_number)
                         /\ interleaved.transactions[h].parent_hash
                                = ParentHashOf(sB)

\* After three payloads a transaction is recorded with the second stream's
\* parent hash and a block number the first stream did not announce last.
C17_Witness ==
    /\ total_flashblocks_received = 3
    /\ current_payload_id = PayloadIdOf("ws://localhost:11112")
    /\ \E h \in Tracked :
          /\ transactions[h].parent_hash = ParentHashOf("ws://localhost:11112")
          /\ transactions[h].block_number = current_block_number

----------------------------------------------------------------------------
\* C18: from every reachable state, an index > 0 payload whose metadata
\* carries block number m sets the context's block number to m and every
\* transaction newly tracked from it is expected at m, whatever the context
\* was; an index > 0 payload without metadata that follows is attributed to
\* m as well and leaves the context's block number at m.
C18_MetadataOverride ==
    \A s1 \in Streams : \A p \in MetadataPayloads(s1) \cap CanIngest(s1) :
        LET once == IngestedOnce(p, s1)
        IN /\ once.current_block_number = p.metadata_block_number
           /\ \A h \in NewlyTracked(once) :
                 once.transactions[h].block_number = p.metadata_block_number
           /\ \A s2 \in Streams :
              \A q \in (IF once.total_flashblocks_received < MaxFlashblocks
                         THEN PlainPayloads(s2) ELSE {}) :
                 LET again == process_flashblock_payload(once, q, s2)
                 IN /\ again.current_block_number = p.metadata_block_number
                    /\ \A h \in DOMAIN again.transactions \ DOMAIN once.transactions :
                          again.transactions[h].block_number = p.metadata_block_number

\* Within three payloads two transactions share the parent hash and differ
\* in the block number: the second was attributed by a metadata block number.
C18_Witness ==
    /\ total_flashblocks_received <= 3
    /\ \E g \in Tracked : \E h \in Tracked :
          /\ transactions[g].parent_hash = transactions[h].parent_hash
          /\ transactions[g].block_number # transactions[h].block_number
          /\ transactions[h].block_number = current_block_number

----------------------------------------------------------------------------
\* C19: while no index-0 payload with a base section has been ingested, an
\* index > 0 payload, with or without a metadata block number, is discarded:
\* nothing is tracked, txs_by_block gets no entry, the parent hash stays
\* unset, and of the counters only total_flashblocks_received changes, by one.
C19_NoContextDiscard ==
    current_parent_hash = None =>
        /\ Tracked = {}
        /\ txs_by_block = <<>>
        /\ \A s1 \in Streams : \A p \in CanIngest(s1) :
              LET once == IngestedOnce(p, s1)
              IN /\ once.transactions = transactions
                 /\ once.txs_by_block = txs_by_block
                 /\ once.current_parent_hash = None
                 /\ once.total_flashblocks_received = total_flashblocks_received + 1
                 /\ once.total_txs_tracked = total_txs_tracked
                 /\ once.total_confirmed = total_confirmed
                 /\ once.total_missing = total_missing
                 /\ once.total_reorg_count = total_reorg_count
                 /\ once.reconnection_count = reconnection_count
                 /\ once.canonical_blocks = canonical_blocks
                 /\ once.latest_canonical_block = latest_canonical_block

\* Payloads were received and discarded, one of them with a metadata block
\* number: no parent hash, nothing tracked.
C19_Witness ==
    /\ current_parent_hash = None
    /\ current_block_number # NoneInt
    /\ total_flashblocks_received = MaxFlashblocks
    /\ total_txs_tracked = 0
    /\ Tracked = {}

----------------------------------------------------------------------------
\* What the tracker holds, without the reconciler's high-water mark
tracker_vars ==
    <<transactions, txs_by_block, canonical_blocks, latest_canonical_block,
      total_flashblocks_received, total_txs_tracked, total_confirmed,
      total_missing, total_reorg_count, reconnection_count,
      current_parent_hash, current_block_number, current_payload_id>>

\* C20: a step of the reconciler loop (a step that receives no flashblock)
\* either ingests a head above the high-water mark and sets the mark to its
\* number, or (repeated or regressed head, failed fetch) leaves the mark and
\* the tracker as they are; the mark never decreases and is the number of
\* the last head ingested.
C20_HighWaterMark ==
    [][/\ last_block' >= last_block
       /\ latest_canonical_block = last_block
       /\ latest_canonical_block' = last_block'
       /\ total_flashblocks_received' = total_flashblocks_received =>
             \/ /\ last_block' > last_block
                /\ last_block' \in DOMAIN canonical_blocks'
             \/ /\ last_block' = last_block
                /\ UNCHANGED tracker_vars]_vars

\* The loop has ingested two heads; the tracker holds the snapshot of the
\* earlier one, which a repeated or regressed head must leave alone.
C20_Witness ==
    /\ last_block > 1
    /\ \E b \in DOMAIN canonical_blocks :
          /\ b < last_block
          /\ canonical_blocks[b] # {}
    /\ last_block \in DOMAIN canonical_blocks

(***************************************************************************)
(* Decode failures inside a batch                                          *)
(***************************************************************************)

\* The hashes of the entries of a list of raw transactions that are hex
\* strings, taken over every position of the list
Decodable(raw_transactions) ==
    {keccak256(raw_transactions[i].body) :
        i \in {j \in 1..Len(raw_transactions) : raw_transactions[j].body \in Hashes}}

\* The hashes indexed in txs_by_block of a tester
Indexed(st) == UNION {DictGet(st.txs_by_block, b) : b \in DictKeySet(st.txs_by_block)}

\* C21 as stated: in every reachable state with an established context, an
\* index > 0 payload leaves every decodable transaction of its list tracked,
\* wherever the undecodable entries stand, and tracks, indexes and counts
\* nothing else.
C21_Original ==
    current_parent_hash # None =>
        \A s1 \in Streams : \A payload \in CanIngest(s1) :
            LET once == IngestedOnce(payload, s1)
                fresh == Decodable(payload.transactions) \ Tracked
            IN /\ DOMAIN once.transactions = Tracked \cup fresh
               /\ Indexed(once) = Indexed(Tester) \cup fresh
               /\ once.total_txs_tracked = total_txs_tracked + Cardinality(fresh)

----------------------------------------------------------------------------
\* The transactions a step starts to track
Created == DOMAIN transactions' \ Tracked

\* C22: whatever the order of flashblock and canonical ingestions, in the state
\* after every step each confirmed or missing transaction expected at block b
\* is confirmed exactly when it is in the snapshot stored for b; a transaction
\* a step starts to track is pending, also when the snapshot of its block is
\* stored and latest_canonical_block is already blocks_to_confirm_after or
\* more above b, and the next pass of the reconciler loop gives every pending
\* transaction below the threshold whose snapshot is stored its status.
C22_OrderTolerantFinalization ==
    [][/\ \A h \in DOMAIN transactions' :
             IsTerminal(transactions'[h].status) =>
                 /\ transactions'[h].block_number \in DOMAIN canonical_blocks'
                 /\ transactions'[h].status = CONFIRMED
                        <=> h \in canonical_blocks'[transactions'[h].block_number]
       /\ \A h \in Created : transactions'[h].status = PENDING
       /\ PassStep =>
             \A h \in Tracked :
                 (/\ transactions[h].status = PENDING
                  /\ transactions[h].block_number <= Threshold
                  /\ transactions[h].block_number \in DOMAIN canonical_blocks)
                     => /\ IsTerminal(transactions'[h].status)
                        /\ transactions'[h].status = CONFIRMED
                              <=> h \in canonical_blocks[transactions[h].block_number]]_vars

\* A transaction tracked after latest_canonical_block had passed its block by
\* the lag: it is pending although the stored snapshot of its block holds it,
\* next to a transaction that was confirmed in the usual order.
C22_Witness ==
    \E g \in Tracked : \E h \in Tracked :
        /\ transactions[h].status = PENDING
        /\ transactions[h].block_number <= Threshold
        /\ transactions[h].block_number \in DOMAIN canonical_blocks
        /\ h \in canonical_blocks[transactions[h].block_number]
        /\ transactions[g].status = CONFIRMED

----------------------------------------------------------------------------
\* C23: in every state between two handler runs txs_by_block indexes exactly
\* the pending transactions: every hash of txs_by_block[b] is tracked, pending
\* and expected at b, every pending transaction is in the entry of its
\* expected block, and no hash is in the entries of two block numbers.
C23_IndexOfPending ==
    /\ \A b \in Keys : \A h \in DictGet(txs_by_block, b) :
          /\ h \in Tracked
          /\ transactions[h].status = PENDING
          /\ transactions[h].block_number = b
    /\ \A h \in Tracked :
          transactions[h].status = PENDING
              => /\ transactions[h].block_number \in Keys
                 /\ h \in DictGet(txs_by_block, transactions[h].block_number)
    /\ \A b \in Keys : \A c \in Keys \ {b} :
          DictGet(txs_by_block, b) \cap DictGet(txs_by_block, c) = {}

\* An entry with a pending transaction, after the entry of another block
\* was deleted with the finalization of its transaction.
C23_Witness ==
    \E b \in Keys : \E g \in Tracked :
        /\ DictGet(txs_by_block, b) # {}
        /\ IsTerminal(transactions[g].status)
        /\ transactions[g].block_number \notin Keys
        /\ g \notin Indexed(Tester)

----------------------------------------------------------------------------
\* The processed block numbers in which the step found a missing transaction
ProcessedWithMissing ==
    {b \in Processed : \E h \in DictGet(txs_by_block, b) : h \in TransitionedTo(MISSING)}

\* C24: in a step whose pass fetches a snapshot itself, so that
\* check_canonical_block runs a nested pass inside it, the nested pass
\* finalizes the eligible blocks and the outer pass adds nothing for them:
\* total_confirmed and total_missing grow by exactly the numbers of
\* transactions that left pending, total_reorg_count by exactly the number of
\* processed blocks with a missing transaction, and every transaction of a
\* processed block left pending, once.
C24_ReentrantFinalization ==
    [][FetchSucceeded # {} =>
          /\ FetchSucceeded \subseteq Processed
          /\ \A b \in Processed : \A h \in DictGet(txs_by_block, b) :
                /\ transactions[h].status = PENDING
                /\ IsTerminal(transactions'[h].status)
          /\ total_confirmed' = total_confirmed + Cardinality(TransitionedTo(CONFIRMED))
          /\ total_missing' = total_missing + Cardinality(TransitionedTo(MISSING))
          /\ total_reorg_count' = total_reorg_count + Cardinality(ProcessedWithMissing)]_vars

\* After a pass with nested passes: the transactions of two blocks are
\* finalized and counted once each, one block's snapshot fetched at the first
\* call, the other's at the second call, made by a nested pass.
C24_Witness ==
    \E g \in Tracked : \E h \in Tracked :
        /\ transactions[g].block_number # transactions[h].block_number
        /\ transactions[g].block_number \in DOMAIN canonical_blocks \ rpc_failed
        /\ transactions[h].block_number \in DOMAIN canonical_blocks \cap rpc_failed
        /\ transactions[g].block_number < last_block
        /\ transactions[h].block_number < last_block
        /\ total_confirmed + total_missing = 2
        /\ total_reorg_count = Cardinality({transactions[x].block_number : x \in WithStatus(MISSING)})

----------------------------------------------------------------------------
\* The block numbers whose snapshot a step stores
Ingested == DOMAIN canonical_blocks' \ DOMAIN canonical_blocks

\* C25: with the endpoint returning the block it was asked for, every step
\* leaves each stored snapshot in canonical_blocks with the same content; the
\* snapshots a step adds are the head the loop ingests, a number above its
\* high-water mark that had no snapshot, and numbers at or below the
\* threshold with an entry in txs_by_block that had no snapshot, fetched by
\* finalization; a step that does not raise the mark (a flashblock, a failed
\* poll, a repeated or regressed head) stores nothing.
C25_SnapshotsStoredOnce ==
    [][/\ \A b \in DOMAIN canonical_blocks :
             /\ b \in DOMAIN canonical_blocks'
             /\ canonical_blocks'[b] = canonical_blocks[b]
       /\ \A b \in Ingested :
             \/ b = last_block' /\ b > last_block
             \/ b \in FetchSucceeded
       /\ last_block' = last_block => Ingested = {}
       /\ PassStep => last_block' \in Ingested]_vars

\* The tracker holds a snapshot that finalization fetched, with the
\* transaction it confirmed, below the head the loop ingested last: a later
\* head at or below the mark must leave both snapshots alone.
C25_Witness ==
    \E h \in WithStatus(CONFIRMED) :
        /\ transactions[h].block_number \in rpc_failed
        /\ canonical_blocks[transactions[h].block_number] = {h}
        /\ last_block \in DOMAIN canonical_blocks
        /\ transactions[h].block_number < last_block

----------------------------------------------------------------------------
\* C26: in every reachable state the result line print_summary would print is
\* FAIL exactly when total_missing > 0, INCONCLUSIVE exactly when
\* total_txs_tracked = 0 and PASS exactly when total_missing = 0 and
\* total_txs_tracked > 0; total_missing > 0 implies total_txs_tracked > 0, so
\* INCONCLUSIVE never stands for a run with a missing transaction, and the
\* result does not depend on the numbers of confirmed or pending transactions.
C26_VerdictOfTwoCounters ==
    LET result == print_summary(Tester).result
    IN /\ result = "FAIL" <=> total_missing > 0
       /\ result = "INCONCLUSIVE" <=> total_txs_tracked = 0
       /\ result = "PASS" <=> (total_missing = 0 /\ total_txs_tracked > 0)
       /\ total_missing > 0 => total_txs_tracked > 0
       /\ result = "INCONCLUSIVE" => print_summary(Tester).missing = 0

\* The summary of this state says PASS although every tracked transaction is
\* still pending and none was confirmed.
C26_Witness ==
    /\ print_summary(Tester).result = "PASS"
    /\ print_summary(Tester).still_pending = total_txs_tracked
    /\ print_summary(Tester).confirmed = 0
    /\ latest_canonical_block > 0

====
